---- MODULE Spec2Model ----
(***************************************************************************)
(* Resume-to-job matching and ATS scoring of the jobstream application:    *)
(* ResumeParser (services/resume_parser.py), ATSScorer                     *)
(* (services/ats_scorer.py), JobMatcher (services/job_matcher.py) and the  *)
(* upload component that keeps the parsed resume in the Streamlit session  *)
(* (components/resume_upload.py) and the job search of app.py.             *)
(*                                                                         *)
(* A Python str is a sequence of one-character strings, so that the        *)
(* regular expressions of the source are computed character by character.  *)
(* A float score is a rational with an exactness flag, <<n, d, exact>>;    *)
(* the values the source rounds with round(x, 1) are integers counting     *)
(* tenths.                                                                 *)
(***************************************************************************)
EXTENDS Integers, Sequences, FiniteSets, TLC

(***************************************************************************)
(* Characters and the character classes of Python's re module (ASCII).     *)
(***************************************************************************)
UpperChars == <<"A","B","C","D","E","F","G","H","I","J","K","L","M","N","O","P","Q","R","S","T","U","V","W","X","Y","Z">>
LowerChars == <<"a","b","c","d","e","f","g","h","i","j","k","l","m","n","o","p","q","r","s","t","u","v","w","x","y","z">>
DigitChars == <<"0","1","2","3","4","5","6","7","8","9">>

Upper == {UpperChars[i] : i \in DOMAIN UpperChars}
Letters == {LowerChars[i] : i \in DOMAIN LowerChars}
Digits == {DigitChars[i] : i \in DOMAIN DigitChars}

\* \w
WordChars == Letters \cup Upper \cup Digits \cup {"_"}
\* \s, and the separators of str.split()
Whitespace == {" ", "\t", "\n"}

Max(S) == CHOOSE x \in S : \A y \in S : y <= x
Min(S) == CHOOSE x \in S : \A y \in S : x <= y

\* t[i..j-1]
Sub(t, i, j) == SubSeq(t, i, j - 1)

\* str.lower()
lower_char(c) ==
    IF c \in Upper
    THEN LowerChars[CHOOSE i \in DOMAIN UpperChars : UpperChars[i] = c]
    ELSE c
lower(t) == [i \in 1..Len(t) |-> lower_char(t[i])]

\* int(x) of a string of decimal digits
digit_value(c) == (CHOOSE i \in DOMAIN DigitChars : DigitChars[i] = c) - 1
RECURSIVE int(_)
int(x) == IF x = <<>> THEN 0 ELSE 10 * int(Sub(x, 1, Len(x))) + digit_value(x[Len(x)])

\* \b at position i: between t[i-1] and t[i], the ends of the text counting
\* as non-word characters.
WordAt(t, i) == i >= 1 /\ i <= Len(t) /\ t[i] \in WordChars
Boundary(t, i) == WordAt(t, i - 1) # WordAt(t, i)

\* The first position at or after i whose character is not in cls: the end
\* of a greedy cls* started at i.
RECURSIVE RunEnd(_, _, _)
RunEnd(t, i, cls) ==
    IF i <= Len(t) /\ t[i] \in cls THEN RunEnd(t, i + 1, cls) ELSE i

\* Whether the literal lit stands in t at position i.
LiteralAt(t, i, lit) ==
    /\ i + Len(lit) - 1 <= Len(t)
    /\ t[i] = lit[1]
    /\ Sub(t, i, i + Len(lit)) = lit

(***************************************************************************)
(* Scores.  A float is <<n, d, exact>>: the rational n/d with d > 0, and   *)
(* whether the float arithmetic that produced it is known to be exact      *)
(* (then the float is n/d; otherwise it lies within rounding error of it). *)
(***************************************************************************)
Float(n, d, exact) == <<n, d, exact>>

\* Whether a / b is a binary fraction, which float division yields exactly.
Dyadic(a, b) == \E j \in 0..10 : (a * 2^j) % b = 0

\* (a / b) * 100
percent(a, b) == Float(a * 100, b, Dyadic(a, b))

\* round(x, 1), in tenths, as the set of values it can return: the nearest
\* tenth; at a tie the even one when the float is exact, and otherwise
\* whichever side of the tie the float error left the float on.
round1(x) ==
    LET n10 == 10 * x[1]
        q == n10 \div x[2]
        r == n10 % x[2]
    IN  IF 2 * r < x[2] THEN {q}
        ELSE IF 2 * r > x[2] THEN {q + 1}
        ELSE IF x[3] THEN {IF q % 2 = 0 THEN q ELSE q + 1}
        ELSE {q, q + 1}

(***************************************************************************)
(* ResumeParser                                                            *)
(***************************************************************************)
COMMON_SKILLS ==
    { <<"p","y","t","h","o","n">>,
      <<"j","a","v","a">>,
      <<"c","+","+">>,
      <<"j","a","v","a","s","c","r","i","p","t">>,
      <<"t","y","p","e","s","c","r","i","p","t">>,
      <<"r","e","a","c","t">>,
      <<"a","n","g","u","l","a","r">>,
      <<"v","u","e">>,
      <<"n","o","d","e",".","j","s">>,
      <<"d","j","a","n","g","o">>,
      <<"f","l","a","s","k">>,
      <<"f","a","s","t","a","p","i">>,
      <<"s","q","l">>,
      <<"m","y","s","q","l">>,
      <<"p","o","s","t","g","r","e","s","q","l">>,
      <<"m","o","n","g","o","d","b">>,
      <<"a","w","s">>,
      <<"a","z","u","r","e">>,
      <<"g","c","p">>,
      <<"d","o","c","k","e","r">>,
      <<"k","u","b","e","r","n","e","t","e","s">>,
      <<"g","i","t">>,
      <<"c","i","/","c","d">>,
      <<"m","a","c","h","i","n","e"," ","l","e","a","r","n","i","n","g">>,
      <<"d","e","e","p"," ","l","e","a","r","n","i","n","g">>,
      <<"n","l","p">>,
      <<"p","y","t","o","r","c","h">>,
      <<"t","e","n","s","o","r","f","l","o","w">>,
      <<"s","c","i","k","i","t","-","l","e","a","r","n">>,
      <<"p","a","n","d","a","s">>,
      <<"n","u","m","p","y">>,
      <<"d","a","t","a"," ","a","n","a","l","y","s","i","s">>,
      <<"r","e","s","t"," ","a","p","i">>,
      <<"g","r","a","p","h","q","l">>,
      <<"h","t","m","l">>,
      <<"c","s","s">>,
      <<"s","a","s","s">>,
      <<"l","e","s","s">>,
      <<"r","e","d","u","x">>,
      <<"m","o","b","x">>,
      <<"n","e","x","t",".","j","s">>,
      <<"n","u","x","t",".","j","s">>,
      <<"e","l","a","s","t","i","c","s","e","a","r","c","h">>,
      <<"r","e","d","i","s">>,
      <<"r","a","b","b","i","t","m","q">>,
      <<"k","a","f","k","a">>,
      <<"l","i","n","u","x">>,
      <<"b","a","s","h">>,
      <<"s","h","e","l","l">> }

\* search_skill without the two \b.
search_skill_anywhere(skill, text) ==
    \E i \in 1..Len(text) : LiteralAt(text, i, skill)

\* re.search(r'\b' + re.escape(skill) + r'\b', text)
search_skill(skill, text) ==
    \E i \in 1..Len(text) :
        /\ Boundary(text, i)
        /\ LiteralAt(text, i, skill)
        /\ Boundary(text, i + Len(skill))

\* (\d+)\+?\s*years? tried at position i: the position after the match, or
\* 0 when there is none.  No shorter \d+, \+? or \s* can succeed where the
\* greedy one fails: the character it would give back is none of + \s y.
match_years_at(t, i) ==
    LET d == RunEnd(t, i, Digits)
        p == IF d <= Len(t) /\ t[d] = "+" THEN d + 1 ELSE d
        w == RunEnd(t, p, Whitespace)
        e == IF w + 4 <= Len(t) /\ t[w + 4] = "s" THEN w + 5 ELSE w + 4
    IN  IF d > i /\ LiteralAt(t, w, <<"y","e","a","r">>) THEN e ELSE 0

\* re.findall(r'(\d+)\+?\s*years?', t), as the set of positions where its
\* non-overlapping matches start.  A match holds digits only in its leading
\* \d+, so the scan skips a position that matches exactly when the digit
\* before it started or continued a match, which it then did from the
\* start of that digit run.
findall_years(t) ==
    {i \in 1..Len(t) :
        match_years_at(t, i) # 0 /\ (i = 1 \/ t[i - 1] \notin Digits)}

\* The (\d+) group of the match that starts at i.
years_group(t, i) == Sub(t, i, RunEnd(t, i, Digits))

\* The email pattern tried at position s: the position after the match, or 0.
\* \b[A-Za-z0-9._%+-]+@[A-Za-z0-9.-]+\.[A-Z|a-z]{2,}\b
LocalChars == Letters \cup Upper \cup Digits \cup {".", "_", "%", "+", "-"}
DomainChars == Letters \cup Upper \cup Digits \cup {".", "-"}
TldChars == Letters \cup Upper \cup {"|"}
match_email_at(t, s) ==
    LET a == RunEnd(t, s, LocalChars)
        b == RunEnd(t, a + 1, DomainChars)
        Ends(d) == {e \in (d + 3)..RunEnd(t, d + 1, TldChars) : Boundary(t, e)}
        Dots == {d \in (a + 2)..(b - 1) : t[d] = "." /\ Ends(d) # {}}
    IN  IF Boundary(t, s) /\ a > s /\ a <= Len(t) /\ t[a] = "@" /\ Dots # {}
        THEN Max(Ends(Max(Dots)))
        ELSE 0

\* An optional value: None, or the one-element sequence of the value.
None == <<>>
Some(v) == <<v>>

\* emails[0] if emails else None
first_email(t) ==
    LET Starts == {s \in 1..Len(t) : match_email_at(t, s) # 0}
    IN  IF Starts = {} THEN None
        ELSE Some(Sub(t, Min(Starts), match_email_at(t, Min(Starts))))

\* len(text.split())
word_count_of(t) ==
    Cardinality({i \in 1..Len(t) :
        t[i] \notin Whitespace /\ (i = 1 \/ t[i - 1] \in Whitespace)})

\* max_years_of without the filter int(y) < 40.
max_years_unfiltered(t) ==
    LET years_matches == findall_years(lower(t))
    IN  IF years_matches # {}
        THEN Max({int(years_group(lower(t), i)) : i \in years_matches})
        ELSE 0

\* max([int(y) for y in years_matches if int(y) < 40]); max() of an empty
\* list raises ValueError, which the bare except swallows.
max_years_of(t) ==
    LET years_matches == findall_years(lower(t))
        kept == {y \in {int(years_group(lower(t), i)) : i \in years_matches} :
                    y < 40}
    IN  IF years_matches # {} /\ kept # {} THEN Max(kept) ELSE 0

\* _extract_info.  skills is the sorted list of a set; the model keeps the
\* set of its elements.
extract_info(text) ==
    [raw_text |-> text,
     skills |-> {skill \in COMMON_SKILLS : search_skill(skill, lower(text))},
     email |-> first_email(text),
     years_experience |-> max_years_of(text),
     word_count |-> word_count_of(text)]

(***************************************************************************)
(* ATSScorer                                                               *)
(***************************************************************************)
stop_words ==
    { <<"a","n","d">>,
      <<"t","h","e">>,
      <<"i","s">>,
      <<"i","n">>,
      <<"a","t">>,
      <<"o","f">>,
      <<"o","r">>,
      <<"f","o","r">>,
      <<"w","i","t","h">>,
      <<"t","o">>,
      <<"a">>,
      <<"a","n">>,
      <<"a","s">>,
      <<"b","y">>,
      <<"o","n">>,
      <<"a","r","e">>,
      <<"b","e">>,
      <<"w","i","l","l">>,
      <<"t","h","a","t">>,
      <<"t","h","i","s">>,
      <<"f","r","o","m">>,
      <<"i","t">>,
      <<"w","e">>,
      <<"u","s">> }

\* dict.get(key, default)
Get(d, key, default) == IF key \in DOMAIN d THEN d[key] ELSE default

\* re.findall(r'\b[a-zA-Z]{3,}\b', t), as the set of its matches: the runs
\* of letters, at least 3 long, that start and end at a word boundary.  A
\* run cut short ends between two letters, where there is no boundary, so
\* only a whole run matches, and no match starts inside another.
findall_words(t) ==
    {Sub(t, i, RunEnd(t, i, Letters \cup Upper)) :
        i \in {j \in 1..Len(t) :
                /\ Boundary(t, j)
                /\ RunEnd(t, j, Letters \cup Upper) - j >= 3
                /\ Boundary(t, RunEnd(t, j, Letters \cup Upper))}}

\* extract_keywords with the stop words left in.
extract_keywords_all(text) == findall_words(lower(text))

\* _extract_keywords
extract_keywords(text) ==
    {w \in findall_words(lower(text)) : w \notin stop_words}

\* _calculate_overlap
calculate_overlap(set_a, set_b) ==
    IF set_a = {} THEN Float(0, 1, TRUE)
    ELSE percent(Cardinality(set_a \cap set_b), Cardinality(set_a))

\* _extract_skills_from_text: the function returns at its placeholder
\* statement; the vocabulary scan below it is never executed.
extract_skills_from_text(text, known_skills) == {}

\* The vocabulary of the scan that follows the placeholder return in
\* _extract_skills_from_text.
common_tech ==
    { <<"p","y","t","h","o","n">>,
      <<"j","a","v","a">>,
      <<"c","+","+">>,
      <<"j","a","v","a","s","c","r","i","p","t">>,
      <<"t","y","p","e","s","c","r","i","p","t">>,
      <<"r","e","a","c","t">>,
      <<"a","n","g","u","l","a","r">>,
      <<"v","u","e">>,
      <<"n","o","d","e",".","j","s">>,
      <<"d","j","a","n","g","o">>,
      <<"f","l","a","s","k">>,
      <<"f","a","s","t","a","p","i">>,
      <<"s","q","l">>,
      <<"m","y","s","q","l">>,
      <<"p","o","s","t","g","r","e","s","q","l">>,
      <<"m","o","n","g","o","d","b">>,
      <<"a","w","s">>,
      <<"a","z","u","r","e">>,
      <<"g","c","p">>,
      <<"d","o","c","k","e","r">>,
      <<"k","u","b","e","r","n","e","t","e","s">>,
      <<"g","i","t">>,
      <<"c","i","/","c","d">>,
      <<"m","a","c","h","i","n","e"," ","l","e","a","r","n","i","n","g">>,
      <<"d","e","e","p"," ","l","e","a","r","n","i","n","g">>,
      <<"n","l","p">>,
      <<"p","y","t","o","r","c","h">>,
      <<"t","e","n","s","o","r","f","l","o","w">>,
      <<"s","c","i","k","i","t","-","l","e","a","r","n">>,
      <<"p","a","n","d","a","s">>,
      <<"n","u","m","p","y">>,
      <<"d","a","t","a"," ","a","n","a","l","y","s","i","s">>,
      <<"r","e","s","t"," ","a","p","i">> }

\* That scan: the entries of common_tech found in text at word boundaries.
scan_common_tech(text) == {skill \in common_tech : search_skill(skill, text)}

\* _extract_years_req
extract_years_req(text) ==
    LET matches == findall_years(text)
    IN  IF matches # {}
        THEN Min({int(years_group(text, i)) : i \in matches})
        ELSE 0

\* skill_match_score_of without the fallback to the keyword score.
skill_match_score_no_fallback(resume_skills, jd_skills, keyword_match_score) ==
    IF jd_skills = {} THEN Float(0, 1, TRUE)
    ELSE percent(Cardinality(resume_skills \cap jd_skills),
                 Cardinality(jd_skills))

\* The skills component of calculate_score.
skill_match_score_of(resume_skills, jd_skills, keyword_match_score) ==
    IF jd_skills = {} THEN keyword_match_score
    ELSE percent(Cardinality(resume_skills \cap jd_skills),
                 Cardinality(jd_skills))

\* exp_score_of without the cap of the word-count score at 100.
exp_score_uncapped(resume_data, jd_years) ==
    LET resume_years == Get(resume_data, "years_experience", 0)
        word_count == Get(resume_data, "word_count", 0)
    IN  IF jd_years > 0
        THEN IF resume_years >= jd_years THEN Float(100, 1, TRUE)
             ELSE percent(resume_years, jd_years)
        ELSE percent(word_count, 500)

\* exp_score_of with the word-count score whatever the job text requires.
exp_score_by_length(resume_data, jd_years) ==
    LET word_count == Get(resume_data, "word_count", 0)
    IN  IF word_count >= 500 THEN Float(100, 1, TRUE)
        ELSE percent(word_count, 500)

\* The experience component of calculate_score.
exp_score_of(resume_data, jd_years) ==
    LET resume_years == Get(resume_data, "years_experience", 0)
        word_count == Get(resume_data, "word_count", 0)
    IN  IF jd_years > 0
        THEN IF resume_years >= jd_years THEN Float(100, 1, TRUE)
             ELSE percent(resume_years, jd_years)
        ELSE IF word_count >= 500 THEN Float(100, 1, TRUE)
             ELSE percent(word_count, 500)

\* weighted_total with the weights 0.4, 0.3 and 0.3.
weighted_total_even(k, s, e) ==
    Float(40 * k[1] * s[2] * e[2] + 30 * s[1] * k[2] * e[2]
              + 30 * e[1] * k[2] * s[2],
          100 * k[2] * s[2] * e[2],
          k[1] = 0 /\ s[1] = 0 /\ e[3])

\* keyword*0.4 + skill*0.35 + exp*0.25.  0.4 and 0.35 are no binary
\* fractions, so the sum is exact only when those two products are 0.
weighted_total(k, s, e) ==
    Float(40 * k[1] * s[2] * e[2] + 35 * s[1] * k[2] * e[2]
              + 25 * e[1] * k[2] * s[2],
          100 * k[2] * s[2] * e[2],
          k[1] = 0 /\ s[1] = 0 /\ e[3])

\* calculate_score, as the set of results it can return: one result, unless
\* a value sits on a decimal tie that its float does not hit exactly.
calculate_score(resume_data, job_description) ==
    LET job_text_lower == lower(job_description)
        job_keywords == extract_keywords(job_description)
        resume_keywords == extract_keywords(Get(resume_data, "raw_text", <<>>))
        keyword_match_score == calculate_overlap(job_keywords, resume_keywords)
        resume_skills == Get(resume_data, "skills", {})
        jd_skills == extract_skills_from_text(job_text_lower,
                                              Get(resume_data, "skills", {}))
        skill_match_score ==
            skill_match_score_of(resume_skills, jd_skills, keyword_match_score)
        jd_years == extract_years_req(job_text_lower)
        exp_score == exp_score_of(resume_data, jd_years)
        total_score ==
            weighted_total(keyword_match_score, skill_match_score, exp_score)
    IN  {[total_score |-> t,
          breakdown |-> [keywords |-> k, skills |-> s, experience |-> e],
          missing_skills |-> jd_skills \ resume_skills,
          matched_skills |-> resume_skills \cap jd_skills] :
            <<t, k, s, e>> \in
                {c \in round1(total_score) \X round1(keyword_match_score)
                        \X round1(skill_match_score) \X round1(exp_score) :
                    skill_match_score = keyword_match_score => c[3] = c[2]}}

(***************************************************************************)
(* Inputs: resume texts, job texts and profiles.                           *)
(***************************************************************************)
\* "5 years of experience with Python, React and AWS. jane@x.com"
R_scenario ==
    <<"5"," ","y","e","a","r","s"," ","o","f"," ","e","x","p","e","r","i","e","n","c","e"," ","w","i","t","h"," ","P","y","t","h","o","n",","," ","R","e","a","c","t"," ","a","n","d"," ","A","W","S","."," ","j","a","n","e","@","x",".","c","o","m">>
\* "api app 11 years"
R_builder ==
    <<"a","p","i"," ","a","p","p"," ","1","1"," ","y","e","a","r","s">>
\* "1 year of Java"
R_junior ==
    <<"1"," ","y","e","a","r"," ","o","f"," ","J","a","v","a">>
\* "C++ and Node.js, 45 years"
R_cpp ==
    <<"C","+","+"," ","a","n","d"," ","N","o","d","e",".","j","s",","," ","4","5"," ","y","e","a","r","s">>
\* "requires 3-5 years"
J_range ==
    <<"r","e","q","u","i","r","e","s"," ","3","-","5"," ","y","e","a","r","s">>
\* "3+ years required, skills: python, react, docker"
J_scenario ==
    <<"3","+"," ","y","e","a","r","s"," ","r","e","q","u","i","r","e","d",","," ","s","k","i","l","l","s",":"," ","p","y","t","h","o","n",","," ","r","e","a","c","t",","," ","d","o","c","k","e","r">>
\* "api app bug dev doc fix hub job lab map net ops run web zip 16 years"
J_sixteen ==
    <<"a","p","i"," ","a","p","p"," ","b","u","g"," ","d","e","v"," ","d","o","c"," ","f","i","x"," ","h","u","b"," ","j","o","b"," ","l","a","b"," ","m","a","p"," ","n","e","t"," ","o","p","s"," ","r","u","n"," ","w","e","b"," ","z","i","p"," ","1","6"," ","y","e","a","r","s">>
\* "Java Developer"
J_title ==
    <<"J","a","v","a"," ","D","e","v","e","l","o","p","e","r">>
\* "Python and AWS for the team"
J_stop ==
    <<"P","y","t","h","o","n"," ","a","n","d"," ","A","W","S"," ","f","o","r"," ","t","h","e"," ","t","e","a","m">>

ResumeFrags == {R_scenario, R_builder, R_junior, R_cpp}
JobFrags == {J_range, J_scenario, J_sixteen, J_title}

\* The most fragments joined into one resume text, and into one job text.
MaxResumeFrags == 1
MaxJobFrags == 2

\* The fragments of s, joined by single spaces.
RECURSIVE Join(_)
Join(s) ==
    IF s = <<>> THEN <<>>
    ELSE IF Len(s) = 1 THEN s[1]
    ELSE s[1] \o <<" ">> \o Join(Tail(s))

TextsOf(frags, n) == {Join(s) : s \in UNION {[1..k -> frags] : k \in 0..n}}

ResumeTexts == TextsOf(ResumeFrags, MaxResumeFrags)
JobTexts == TextsOf(JobFrags, MaxJobFrags) \cup {J_stop}

\* Profiles a caller can pass that the parser did not build: the empty
\* dict, and a dict without raw_text and email.
EmptyDict == <<>>
LongResume ==
    [skills |-> {<<"p","y","t","h","o","n">>, <<"a","w","s">>},
     years_experience |-> 2,
     word_count |-> 600]

Profiles == {extract_info(t) : t \in ResumeTexts} \cup {EmptyDict, LongResume}

(***************************************************************************)
(* State: the Streamlit session (resume_data, resume_filename), the call   *)
(* being made with its arguments, the value it returned (None while the    *)
(* call has not returned), and what it showed on the page and the console. *)
(***************************************************************************)
VARIABLES resume_data, resume_filename, call, result, shown

vars == <<resume_data, resume_filename, call, result, shown>>

(***************************************************************************)
(* ATSScorer.calculate_score called on a profile and a job text.           *)
(***************************************************************************)
ScorerInit ==
    /\ resume_data = None
    /\ resume_filename = None
    /\ call \in [op : {"calculate_score"}, resume_data : Profiles,
                 job_description : JobTexts]
    /\ result = None
    /\ shown = {}

CalculateScore ==
    /\ call.op = "calculate_score"
    /\ result = None
    /\ \E r \in calculate_score(call.resume_data, call.job_description) :
        result' = Some(r)
    /\ UNCHANGED <<resume_data, resume_filename, call, shown>>

ScorerSpec == ScorerInit /\ [][CalculateScore]_vars

Returned == call.op = "calculate_score" /\ result # None

\* The job skills of the claims: the vocabulary entries that occur in the
\* job text as whole words or phrases.
JobSkills == scan_common_tech(lower(call.job_description))
ProfileSkills == Get(call.resume_data, "skills", {})

\* C1: for every profile (fields missing or raw_text empty included) and
\* every job text (the empty one included) calculate_score returns a result
\* whose total_score and keywords, skills and experience components lie in
\* [0, 100] (0..1000 tenths).
C1_ScoreInRange ==
    Returned =>
        /\ result[1].total_score \in 0..1000
        /\ \A c \in {"keywords", "skills", "experience"} :
            result[1].breakdown[c] \in 0..1000

\* A profile without raw_text scored against the empty job text, its
\* word-count score capped at 100.
C1_Witness ==
    /\ Returned
    /\ call.resume_data = LongResume
    /\ call.job_description = <<>>
    /\ result[1].breakdown.experience = 1000

\* C2: when the job text contains a vocabulary entry, the skills component
\* is |job_skills \cap profile.skills| / |job_skills| * 100, rounded to one
\* decimal.
C2_SkillsIsVocabularyOverlap ==
    (Returned /\ JobSkills # {}) =>
        result[1].breakdown.skills \in
            round1(percent(Cardinality(JobSkills \cap ProfileSkills),
                           Cardinality(JobSkills)))

\* C3: matched_skills is the job skills the profile has, and missing_skills
\* the job skills it lacks.
C3_MatchedAndMissingSkills ==
    Returned =>
        /\ result[1].matched_skills = JobSkills \cap ProfileSkills
        /\ result[1].missing_skills = JobSkills \ ProfileSkills

\* C4: the required years extracted from "requires 3-5 years" is 3, the
\* lower end of the range.
C4_RangeYieldsItsMinimum ==
    (Returned /\ call.job_description = J_range) =>
        extract_years_req(lower(call.job_description)) = 3

\* The distance, in thousandths, between the returned total_score and the
\* weighted sum of the returned components.
WeightedSumGap ==
    LET b == result[1].breakdown
        d == 100 * result[1].total_score
                 - (40 * b.keywords + 35 * b.skills + 25 * b.experience)
    IN  IF d < 0 THEN -d ELSE d

\* C5 as stated: the returned total_score differs from
\* 0.4*keywords + 0.35*skills + 0.25*experience by less than 0.1.
C5_GapBelowTenth == Returned => WeightedSumGap < 100

\* C5, amended: the returned total_score differs from
\* 0.4*keywords + 0.35*skills + 0.25*experience by at most 0.1.
C5_GapAtMostTenth == Returned => WeightedSumGap <= 100

\* A result in which the gap is exactly 0.1.
C5_Witness == Returned /\ WeightedSumGap = 100

\* C11: when the job text contains no vocabulary skill, the skills component
\* equals the keywords component, and matched_skills and missing_skills are
\* both empty.
C11_NoJobSkillFallsBackToKeywords ==
    (Returned /\ JobSkills = {}) =>
        /\ result[1].breakdown.skills = result[1].breakdown.keywords
        /\ result[1].matched_skills = {}
        /\ result[1].missing_skills = {}

\* A profile with skills scored against a job text without vocabulary skill
\* that shares keywords with the resume.
C11_Witness ==
    /\ Returned
    /\ JobSkills = {}
    /\ ProfileSkills # {}
    /\ result[1].breakdown.keywords > 0
    /\ result[1].breakdown.skills = result[1].breakdown.keywords

\* The requirement the job text states, as _extract_years_req reads it, and
\* whether it states one.
StatedYears == extract_years_req(lower(call.job_description))
StatesYears == findall_years(lower(call.job_description)) # {}

\* C12: the experience component is 100 when the job text states a
\* requirement r > 0 and years_experience >= r; (years_experience / r) * 100,
\* below 100, when r > 0 and years_experience < r; and
\* min(100, word_count / 500 * 100) when the job text states no requirement.
C12_ExperienceComponent ==
    Returned =>
        LET r == StatedYears
            years == Get(call.resume_data, "years_experience", 0)
            word_count == Get(call.resume_data, "word_count", 0)
            experience == result[1].breakdown.experience
        IN  /\ (r > 0 /\ years >= r) => experience = 1000
            /\ (r > 0 /\ years < r) =>
                /\ experience \in round1(percent(years, r))
                /\ experience < 1000
            /\ ~StatesYears => experience = Min({1000, 2 * word_count})

\* A resume of 1 year scored against a job text that requires 3.
C12_Witness ==
    /\ Returned
    /\ StatedYears = 3
    /\ Get(call.resume_data, "years_experience", 0) = 1
    /\ result[1].breakdown.experience = 333

\* The keyword set of the claims: the maximal runs of word characters of
\* the lower-cased text that are all letters and at least 3 long, the stop
\* words removed.
KeywordSet(text) ==
    LET t == lower(text)
        Starts == {i \in 1..Len(t) : t[i] \in Letters /\ ~WordAt(t, i - 1)}
        End(i) == RunEnd(t, i, Letters)
    IN  {Sub(t, i, End(i)) :
            i \in {j \in Starts : ~WordAt(t, End(j)) /\ End(j) - j >= 3}}
        \ stop_words

\* C15: the keywords component is
\* |job_keywords \cap resume_keywords| / |job_keywords| * 100, rounded to one
\* decimal, and 0 when job_keywords is empty; the keyword sets are sets, so
\* repeated tokens and resume keywords absent from the job text do not count.
C15_KeywordsIsKeywordOverlap ==
    Returned =>
        LET job_keywords == KeywordSet(call.job_description)
            resume_keywords ==
                KeywordSet(Get(call.resume_data, "raw_text", <<>>))
        IN  IF job_keywords = {} THEN result[1].breakdown.keywords = 0
            ELSE result[1].breakdown.keywords \in
                    round1(percent(Cardinality(job_keywords \cap resume_keywords),
                                   Cardinality(job_keywords)))

\* A job text that names its two keywords twice, scored against a resume
\* that has one of them and a keyword the job text lacks.
C15_Witness ==
    /\ Returned
    /\ call.job_description = Join(<<J_title, J_title>>)
    /\ call.resume_data = extract_info(R_junior)
    /\ result[1].breakdown.keywords = 500

(***************************************************************************)
(* ResumeParser._extract_info called on a resume text.                     *)
(***************************************************************************)
\* "I know C++."
F_cpp ==
    <<"I"," ","k","n","o","w"," ","C","+","+",".">>
\* "c++11"
F_cpp11 ==
    <<"c","+","+","1","1">>
\* "(Next.js)"
F_next ==
    <<"(","N","e","x","t",".","j","s",")">>
\* "45 years 50 years"
F_over ==
    <<"4","5"," ","y","e","a","r","s"," ","5","0"," ","y","e","a","r","s">>
\* "10 years 39+ years 40 years"
F_years ==
    <<"1","0"," ","y","e","a","r","s"," ","3","9","+"," ","y","e","a","r","s"," ","4","0"," ","y","e","a","r","s">>
\* "2024 YEARS\t3  year\n"
F_upper ==
    <<"2","0","2","4"," ","Y","E","A","R","S","\t","3"," "," ","y","e","a","r","\n">>
\* "MySQL."
F_mysql ==
    <<"M","y","S","Q","L",".">>
\* "vue.js"
F_vuejs ==
    <<"v","u","e",".","j","s">>

\* Resume fragments: every vocabulary entry on its own, and sentences.
ParserFrags ==
    COMMON_SKILLS \cup ResumeFrags
        \cup {F_cpp, F_cpp11, F_next, F_over, F_years, F_upper, F_mysql, F_vuejs}

\* The most fragments joined into one text handed to _extract_info.
MaxParserFrags == 1

ParserTexts == TextsOf(ParserFrags, MaxParserFrags)

ParserInit ==
    /\ resume_data = None
    /\ resume_filename = None
    /\ call \in [op : {"_extract_info"}, text : ParserTexts]
    /\ result = None
    /\ shown = {}

ExtractInfo ==
    /\ call.op = "_extract_info"
    /\ result = None
    /\ result' = Some(extract_info(call.text))
    /\ UNCHANGED <<resume_data, resume_filename, call, shown>>

ParserSpec == ParserInit /\ [][ExtractInfo]_vars

Parsed == call.op = "_extract_info" /\ result # None

\* The integers the 'N years' / 'N+ years' pattern captures in the text.
CapturedYears ==
    LET t == lower(call.text)
    IN  {int(years_group(t, i)) : i \in findall_years(t)}

\* The number of whitespace-delimited tokens of the text, counted at the
\* last character of each token.
TokenCount ==
    Cardinality({i \in 1..Len(call.text) :
        /\ call.text[i] \notin Whitespace
        /\ (i = Len(call.text) \/ call.text[i + 1] \in Whitespace)})

\* C13: the profile _extract_info builds has 0 <= years_experience < 40,
\* years_experience being the largest captured integer below 40, or 0 when
\* none is below 40, and word_count is the number of whitespace-delimited
\* tokens of the text.
C13_YearsBelowFortyAndWordCount ==
    Parsed =>
        LET kept == {y \in CapturedYears : y < 40}
        IN  /\ result[1].years_experience \in 0..39
            /\ result[1].years_experience = IF kept = {} THEN 0 ELSE Max(kept)
            /\ call.text = F_over => result[1].years_experience = 0
            /\ result[1].word_count = TokenCount

\* A text that mentions 10, 39 and 40 years in six tokens.
C13_Witness ==
    /\ Parsed
    /\ call.text = F_years
    /\ CapturedYears = {10, 39, 40}
    /\ result[1].years_experience = 39
    /\ result[1].word_count = 6

\* Whether the occurrence of skill at position i of t lies in a longer word:
\* the run of word characters it starts or ends in goes on past it.
InsideLongerWord(t, i, skill) ==
    \/ WordAt(t, i - 1) /\ WordAt(t, i)
    \/ WordAt(t, i + Len(skill) - 1) /\ WordAt(t, i + Len(skill))

\* C16: _extract_info registers no vocabulary skill that occurs only inside
\* a longer word: every skill of the profile has an occurrence in the text
\* that is not part of a longer word; "javascript" alone yields no "java"
\* and "java" alone no "javascript".
C16_NoSkillFromInsideAWord ==
    Parsed =>
        LET t == lower(call.text)
        IN  /\ \A skill \in result[1].skills :
                \E i \in 1..Len(t) :
                    LiteralAt(t, i, skill) /\ ~InsideLongerWord(t, i, skill)
            /\ call.text = <<"j","a","v","a","s","c","r","i","p","t">> =>
                <<"j","a","v","a">> \notin result[1].skills
            /\ call.text = <<"j","a","v","a">> =>
                <<"j","a","v","a","s","c","r","i","p","t">> \notin result[1].skills

\* The text "javascript", of which only javascript is registered.
C16_Witness ==
    /\ Parsed
    /\ call.text = <<"j","a","v","a","s","c","r","i","p","t">>
    /\ result[1].skills = {<<"j","a","v","a","s","c","r","i","p","t">>}

\* Whitespace and sentence punctuation.
Delimiters == Whitespace \cup {".", ",", ";", ":", "!", "?"}

\* Whether skill stands in t as a phrase of its own: delimited on each side
\* by a delimiter or an end of the text.
Standalone(t, skill) ==
    \E i \in 1..Len(t) :
        /\ LiteralAt(t, i, skill)
        /\ (i = 1 \/ t[i - 1] \in Delimiters)
        /\ (i + Len(skill) > Len(t) \/ t[i + Len(skill)] \in Delimiters)

\* C17: every vocabulary entry, those with punctuation ('c++', 'node.js',
\* 'ci/cd', 'next.js') included, that stands in the resume text as a phrase
\* of its own is among the skills of the built profile.
C17_StandaloneEntryIsRegistered ==
    Parsed =>
        \A skill \in COMMON_SKILLS :
            Standalone(lower(call.text), skill) => skill \in result[1].skills

(***************************************************************************)
(* JobMatcher                                                              *)
(***************************************************************************)
\* Cell values of a DataFrame that are no str: float('nan') and None.
NaN == <<"nan">>
PyNone == <<"None">>

\* str(v) inside an f-string
format_value(v) ==
    IF v = NaN THEN <<"n","a","n">>
    ELSE IF v = PyNone THEN <<"N","o","n","e">>
    ELSE v

\* f"{job.get('title', '')} {job.get('skills', '')} {job.get('experience', '')}"
job_text_of(job) ==
    format_value(Get(job, "title", <<>>)) \o <<" ">>
        \o format_value(Get(job, "skills", <<>>)) \o <<" ">>
        \o format_value(Get(job, "experience", <<>>))

\* threshold: float = 50.0, in tenths
DefaultThreshold == 500

\* effective_threshold with 0 as the default.
effective_threshold_zero(threshold) ==
    IF threshold = None THEN 0 ELSE threshold[1]

\* The threshold of a call: the argument, or the default when it is omitted.
effective_threshold(threshold) ==
    IF threshold = None THEN DefaultThreshold ELSE threshold[1]

\* meets_threshold with a strict comparison.
meets_threshold_strict(match_score, threshold) == match_score > threshold

\* result_df['match_score'] >= threshold
meets_threshold(match_score, threshold) == match_score >= threshold

\* sort_values(by='match_score', ascending=False), as the set of frames it
\* can return.  kind is left at pandas' default 'quicksort', which is not
\* stable: rows of equal match_score come out in any order.
sort_values(df) ==
    LET n == Len(df)
        Orders == {o \in [1..n -> 1..n] : \A i, j \in 1..n : i # j => o[i] # o[j]}
    IN  {[i \in 1..n |-> df[o[i]]] : o \in
            {o \in Orders : \A i, j \in 1..n :
                i < j => df[o[i]].match_score >= df[o[j]].match_score}}

\* The scores list of match_jobs, as the set of lists it can be: for every
\* row one total_score calculate_score can return, the same for the same
\* job text.
scores_of(profile, jobs_df) ==
    LET n == Len(jobs_df)
        Totals(i) ==
            {r.total_score :
                r \in calculate_score(profile, job_text_of(jobs_df[i].job))}
        All == UNION {Totals(i) : i \in 1..n}
    IN  {s \in [1..n -> All] :
            /\ \A i \in 1..n : s[i] \in Totals(i)
            /\ \A i, j \in 1..n :
                job_text_of(jobs_df[i].job) = job_text_of(jobs_df[j].job)
                    => s[i] = s[j]}

\* match_jobs, as the set of frames it can return.  A frame is the sequence
\* of its rows; a row holds its index label, the job's columns and, once
\* added, match_score.
match_jobs(profile, jobs_df, threshold) ==
    IF jobs_df = <<>> \/ profile = <<>> THEN {jobs_df}
    ELSE UNION {
        LET result_df ==
                [i \in 1..Len(jobs_df) |->
                    [index |-> jobs_df[i].index, job |-> jobs_df[i].job,
                     match_score |-> scores[i]]]
            Keep(row) ==
                meets_threshold(row.match_score, effective_threshold(threshold))
        IN  sort_values(SelectSeq(result_df, Keep)) :
        scores \in scores_of(profile, jobs_df)}

\* Job postings.
JobA ==
    [title |-> <<"J","a","v","a"," ","D","e","v","e","l","o","p","e","r">>,
     skills |-> <<"j","a","v","a">>,
     experience |-> <<"1"," ","y","e","a","r">>]
JobB ==
    [title |-> <<"D","a","t","a"," ","E","n","g","i","n","e","e","r">>,
     skills |-> <<"p","y","t","h","o","n",","," ","s","q","l">>,
     experience |-> <<"3","+"," ","y","e","a","r","s">>]
JobC ==
    [title |-> <<"I","n","t","e","r","n">>,
     skills |-> NaN,
     experience |-> <<>>]
Jobs == {JobA, JobB, JobC}

\* The most rows of a job frame.
MaxJobs == 3

\* The frames of at most MaxJobs rows, their index labels 1..n.
JobFrames ==
    {[i \in 1..n |-> [index |-> i, job |-> s[i]]] :
        <<n, s>> \in UNION {{n} \X [1..n -> Jobs] : n \in 0..MaxJobs}}

\* threshold arguments, in tenths: omitted, or given.
ThresholdArgs == {None, Some(0), Some(83), Some(200)}

\* Profiles passed to match_jobs: a parsed resume, the profile of a resume
\* without text, and no profile.
MatcherProfiles == {extract_info(R_junior), extract_info(<<>>), None}

MatcherInit ==
    /\ resume_data = None
    /\ resume_filename = None
    /\ call \in [op : {"match_jobs"}, resume_data : MatcherProfiles,
                 jobs_df : JobFrames, threshold : ThresholdArgs]
    /\ result = None
    /\ shown = {}

MatchJobs ==
    /\ call.op = "match_jobs"
    /\ result = None
    /\ \E r \in match_jobs(call.resume_data, call.jobs_df, call.threshold) :
        result' = Some(r)
    /\ UNCHANGED <<resume_data, resume_filename, call, shown>>

MatcherSpec == MatcherInit /\ [][MatchJobs]_vars

Matched == call.op = "match_jobs" /\ result # None

\* match_jobs went past its early return and scored the jobs.
Scored == Matched /\ call.jobs_df # <<>> /\ call.resume_data # None

\* The total_score values calculate_score can return for input row i.
PossibleScores(i) ==
    {r.total_score :
        r \in calculate_score(call.resume_data,
                              job_text_of(call.jobs_df[i].job))}

\* The index labels of the returned rows.
RowIndices == {result[1][k].index : k \in DOMAIN result[1]}

\* C6: the result of match_jobs is ordered by match_score descending, and
\* jobs of equal match_score keep their relative input order.
C6_DescendingAndStable ==
    Scored =>
        \A i, j \in DOMAIN result[1] :
            i < j =>
                \/ result[1][i].match_score > result[1][j].match_score
                \/ /\ result[1][i].match_score = result[1][j].match_score
                   /\ result[1][i].index < result[1][j].index

\* C7: for a non-empty job list and a present profile, match_jobs returns
\* exactly the input jobs whose match_score is at least the threshold: each
\* returned row is an input job, once, with a score of its synthesized text
\* that is >= threshold, and each input job left out scored below it.
C7_ExactlyTheJobsAtOrAboveThreshold ==
    Scored =>
        LET r == result[1]
            threshold == effective_threshold(call.threshold)
        IN  /\ \A k \in DOMAIN r :
                /\ r[k].index \in DOMAIN call.jobs_df
                /\ r[k].job = call.jobs_df[r[k].index].job
                /\ r[k].match_score \in PossibleScores(r[k].index)
                /\ r[k].match_score >= threshold
            /\ \A k, l \in DOMAIN r : k # l => r[k].index # r[l].index
            /\ \A i \in DOMAIN call.jobs_df :
                i \notin RowIndices => \E s \in PossibleScores(i) : s < threshold

\* A call whose threshold one job meets exactly and another job misses.
C7_Witness ==
    /\ Scored
    /\ call.threshold = Some(83)
    /\ \E k \in DOMAIN result[1] : result[1][k].match_score = 83
    /\ Len(result[1]) < Len(call.jobs_df)

\* C8 as stated: called without a threshold, match_jobs retains every input
\* job.
C8_NoThresholdKeepsEveryJob ==
    (Scored /\ call.threshold = None) => Len(result[1]) = Len(call.jobs_df)

\* C8, amended: called without a threshold, match_jobs uses the threshold
\* 50.0 and retains exactly the input jobs whose match_score is at least 50.
C8_NoThresholdKeepsJobsFromFifty ==
    (Scored /\ call.threshold = None) =>
        /\ \A k \in DOMAIN result[1] : result[1][k].match_score >= 500
        /\ \A i \in DOMAIN call.jobs_df :
            i \notin RowIndices => \E s \in PossibleScores(i) : s < 500

\* A call without a threshold that keeps one job and drops another.
C8_Witness ==
    /\ Scored
    /\ call.threshold = None
    /\ result[1] # <<>>
    /\ Len(result[1]) < Len(call.jobs_df)

\* Whether a cell is null, and the text of a field the claims let it
\* contribute: nothing when the key is missing or the cell is null.
IsNull(v) == v \in {NaN, PyNone}
FieldText(job, key) ==
    IF key \notin DOMAIN job \/ IsNull(job[key]) THEN <<>> ELSE job[key]

\* C14: in the job text match_jobs synthesizes, a field that is absent, empty
\* or null contributes nothing: the keyword set of the job text is made of
\* the keywords of its title, skills and experience texts only, a null cell
\* adding none.
C14_NullFieldAddsNoKeyword ==
    Scored =>
        \A i \in DOMAIN call.jobs_df :
            extract_keywords(job_text_of(call.jobs_df[i].job)) =
                UNION {extract_keywords(FieldText(call.jobs_df[i].job, key)) :
                        key \in {"title", "skills", "experience"}}

(***************************************************************************)
(* The job search of the application (app.py, main): the filtered jobs are *)
(* scored against the resume of the session with threshold 0, and the      *)
(* result is sorted once more.                                             *)
(***************************************************************************)
\* The value match_jobs returned (None when it was not called) and the
\* filtered_df the page goes on with, as the set of outcomes.
search_jobs(profile, filtered_df) ==
    IF profile # <<>> /\ filtered_df # <<>>
    THEN UNION {{[matched |-> Some(m), filtered_df |-> f] : f \in sort_values(m)} :
                    m \in match_jobs(profile, filtered_df, Some(0))}
    ELSE {[matched |-> None, filtered_df |-> filtered_df]}

\* df.fillna("") of JobDataLoader._clean_data, on one job: the frames the
\* application searches come from the loader, which leaves no null cell.
fillna(job) ==
    [key \in DOMAIN job |-> IF job[key] \in {NaN, PyNone} THEN <<>> ELSE job[key]]

\* The frames the loader and the filters hand to the search.
LoadedFrames ==
    {[i \in DOMAIN df |-> [index |-> df[i].index, job |-> fillna(df[i].job)]] :
        df \in JobFrames}

\* The resume of the session: a parsed one, or none.
SearchProfiles ==
    {extract_info(R_junior), extract_info(R_scenario), extract_info(<<>>), None}

SearchInit ==
    /\ resume_data \in SearchProfiles
    /\ resume_filename = None
    /\ call \in [op : {"main"}, filtered_df : LoadedFrames]
    /\ result = None
    /\ shown = {}

SearchJobs ==
    /\ call.op = "main"
    /\ result = None
    /\ \E r \in search_jobs(resume_data, call.filtered_df) : result' = Some(r)
    /\ UNCHANGED <<resume_data, resume_filename, call, shown>>

SearchSpec == SearchInit /\ [][SearchJobs]_vars

\* The search scored the jobs.
Searched ==
    call.op = "main" /\ result # None /\ resume_data # None
        /\ call.filtered_df # <<>>

\* C18: with threshold 0, match_jobs on a non-empty job list and a parsed
\* profile returns a permutation of the input jobs, each once and with a
\* match_score, none filtered out, and the second descending sort of the
\* application leaves the order of that result unchanged.
C18_PermutationAndSecondSortIdle ==
    Searched =>
        LET m == result[1].matched[1]
        IN  /\ Len(m) = Len(call.filtered_df)
            /\ {m[k].index : k \in DOMAIN m} = DOMAIN call.filtered_df
            /\ \A k \in DOMAIN m :
                /\ m[k].job = call.filtered_df[m[k].index].job
                /\ m[k].match_score \in
                    {r.total_score :
                        r \in calculate_score(resume_data, job_text_of(m[k].job))}
            /\ result[1].filtered_df = m

(***************************************************************************)
(* ResumeParser.parse_file and the upload component                        *)
(***************************************************************************)
\* str.endswith
endswith(s, suffix) ==
    Len(s) >= Len(suffix) /\ Sub(s, Len(s) - Len(suffix) + 1, Len(s) + 1) = suffix

\* The bytes of an uploaded file: a PDF or a DOCX container holding a text,
\* or bytes that are neither ("corrupt").
\* _extract_text_from_pdf: fitz fails on bytes that are no PDF; the failure
\* is printed and the text is "".
extract_text_from_pdf(content) ==
    IF content.format = "pdf" THEN content.text ELSE <<>>

\* _extract_text_from_docx
extract_text_from_docx(content) ==
    IF content.format = "docx" THEN content.text ELSE <<>>

\* Whether parse_file prints an extraction error for this file.
extraction_fails(file_content, filename) ==
    \/ endswith(lower(filename), <<".","p","d","f">>) /\ file_content.format # "pdf"
    \/ /\ ~endswith(lower(filename), <<".","p","d","f">>)
       /\ endswith(lower(filename), <<".","d","o","c","x">>)
       /\ file_content.format # "docx"

\* parse_file: the profile, or the ValueError it raises.
parse_file(file_content, filename) ==
    IF endswith(lower(filename), <<".","p","d","f">>)
    THEN [raised |-> FALSE,
          value |-> extract_info(extract_text_from_pdf(file_content))]
    ELSE IF endswith(lower(filename), <<".","d","o","c","x">>)
    THEN [raised |-> FALSE,
          value |-> extract_info(extract_text_from_docx(file_content))]
    ELSE [raised |-> TRUE, value |-> None]

\* Uploaded files.  The uploader widget is asked for pdf and docx; parse_file
\* and the except clause of render_resume_upload also provide for a file of
\* another extension, so the model lets one through.
FileNames == {<<"c","v",".","p","d","f">>, <<"C","V",".","P","D","F">>, <<"c","v",".","d","o","c","x">>, <<"c","v",".","t","x","t">>}
FileContents ==
    {[format |-> "pdf", text |-> R_scenario],
     [format |-> "pdf", text |-> R_junior],
     [format |-> "docx", text |-> R_junior],
     [format |-> "docx", text |-> R_builder],
     [format |-> "corrupt", text |-> <<>>]}
Files == [name : FileNames, content : FileContents]

Init ==
    /\ resume_data = None
    /\ resume_filename = None
    /\ call = [op |-> "none"]
    /\ result = None
    /\ shown = {}

\* render_resume_upload, run with uploaded_file in the uploader (None: no
\* file).  The session keeps the profile of the last parse under
\* 'resume_data' and the name of the file it came from under
\* 'resume_filename'.
RenderResumeUpload(uploaded_file) ==
    LET parse ==
            uploaded_file # None /\ resume_filename # uploaded_file.name
        parsed == parse_file(uploaded_file.content, uploaded_file.name)
        stored == parse /\ ~parsed.raised
        data == IF stored THEN parsed.value ELSE resume_data
    IN  /\ call' = [op |-> "render_resume_upload",
                    uploaded_file |-> uploaded_file]
        /\ resume_data' = data
        /\ resume_filename' =
            IF stored THEN uploaded_file.name ELSE resume_filename
        /\ shown' =
            IF ~parse THEN {}
            ELSE IF parsed.raised THEN {"st.error"}
            ELSE IF extraction_fails(uploaded_file.content, uploaded_file.name)
            THEN {"print error", "st.success"}
            ELSE {"st.success"}
        /\ result' = Some(data)

Next == \E uploaded_file \in Files \cup {None} : RenderResumeUpload(uploaded_file)

Spec == Init /\ [][Next]_vars

Rendered ==
    call.op = "render_resume_upload" /\ call.uploaded_file # None

\* The uploaded document is one parse_file parses: its extension is
\* supported and its bytes are of that format.
ParsesSuccessfully(file) ==
    /\ ~parse_file(file.content, file.name).raised
    /\ ~extraction_fails(file.content, file.name)

\* C9: whenever a document is uploaded and parses successfully, the profile
\* render_resume_upload returns is the profile built from that document's
\* content, whatever was uploaded before.
C9_UploadSupersedesProfile ==
    (Rendered /\ ParsesSuccessfully(call.uploaded_file)) =>
        result[1] = extract_info(call.uploaded_file.content.text)

\* The profile of a resume without text: no skills, no email, 0 years,
\* 0 words.
EmptyProfile == extract_info(<<>>)

\* C10: when an upload fails (parse_file raises for an unsupported
\* extension, or text extraction of a corrupt file fails), the profile
\* render_resume_upload returns is absent or empty, whatever was uploaded
\* before.
C10_FailedUploadLeavesNoProfile ==
    (Rendered /\ shown \cap {"st.error", "print error"} # {}) =>
        result[1] \in {None, EmptyProfile}

====
